---- MODULE Spec2Model ----
(***************************************************************************)
(* A model of the weasel program (src/main.rs, src/weasel.rs): the         *)
(* argument validation of main, the generation loop of run_weasel and the  *)
(* three helpers gen_rand_string, get_mutated_string, check_equal_chars.   *)
(*                                                                         *)
(* A Rust String is modelled as the sequence of its chars, each char being *)
(* its Unicode scalar value (71 = 'G', 79 = 'O', 88 = 'X', 233 = 'é').     *)
(* String::len() counts UTF-8 bytes, String::chars() yields chars; both    *)
(* are modelled as the code uses them.  The random source is modelled by   *)
(* explicit draws that the actions choose nondeterministically.            *)
(***************************************************************************)
EXTENDS Integers, Sequences, FiniteSets, TLC

VARIABLES
    args,        \* WeaselArgs: phrase, char_set, iterations, mutation_rate
    pc,          \* position: "main", "run", "while", "for", "exit"
    prev_best,   \* run_weasel: best Mutation of the last generation
    cur_best,    \* run_weasel: best Mutation of the running generation
    cur_str,     \* run_weasel: the string of the latest trial
    iter,        \* run_weasel: trials done in the running for loop
    gen_num,     \* run_weasel: generation counter
    out,         \* standard output, a sequence of lines
    err,         \* standard error, a sequence of messages
    exit_code,   \* main: exit_code
    gen_calls,   \* history: number of calls of gen_rand_string
    hit,         \* history: a trial of the running batch equalled the phrase
    batch        \* history: the trials of the running batch, in order, each
                 \* with the base handed to get_mutated_string and its result

vars == <<args, pc, prev_best, cur_best, cur_str, iter, gen_num, out, err,
          exit_code, gen_calls, hit, batch>>

----------------------------------------------------------------------------
(* Bounds of the model *)

\* generations after which the model stops following a run
MaxGen == 3
\* largest `iterations` of the enumerated configurations
MaxIter == 2
\* longest string handed to the helpers when they are checked on their own
MaxLen == 2

(* Program constants *)

\* upper end of rng.gen_range(0..=100)
MaxRoll == 100
\* main: mutation_rate > 100 is rejected
MaxRate == 100
\* main: mutation_rate < 1 and iterations < 1 are rejected
MinRate == 1
MinIterations == 1

----------------------------------------------------------------------------
(* Strings *)

\* number of bytes of the UTF-8 encoding of a char
Utf8Len(c) == IF c < 128 THEN 1 ELSE IF c < 2048 THEN 2 ELSE IF c < 65536 THEN 3 ELSE 4

\* String::len(): the length in bytes
RECURSIVE ByteLen(_)
ByteLen(s) == IF s = <<>> THEN 0 ELSE Utf8Len(Head(s)) + ByteLen(Tail(s))

\* the chars a string holds
Chars(s) == {s[k] : k \in 1..Len(s)}

Min(a, b) == IF a <= b THEN a ELSE b

\* Result<String, _>
Ok(s) == [ok |-> TRUE, val |-> s]
Failed == [ok |-> FALSE, val |-> <<>>]

\* Iterator::choose over char_set.chars(): None (0 here) on an empty
\* iterator, else the element the draw r selects
Choose(char_set, r) == IF Len(char_set) = 0 THEN 0 ELSE char_set[(r % Len(char_set)) + 1]

\* the draws that distinguish the elements of char_set
PickRange(char_set) == 0..(IF Len(char_set) = 0 THEN 0 ELSE Len(char_set) - 1)

\* the sampled values of rng.gen_range(0..=100): the ends of the range and
\* the values around the rates the configurations use
RollSamples == {0, 1, 2, MaxRoll}

\* gen_rand_string: str_len pushes of a chosen char; the first failed choice
\* ends the call with an error.  picks[k] is the draw of the k-th choice.
RECURSIVE GenFrom(_, _, _, _, _)
GenFrom(k, str_len, char_set, picks, rand_string) ==
    IF k > str_len THEN Ok(rand_string)
    ELSE LET c == Choose(char_set, picks[k])
         IN  IF c = 0 THEN Failed
             ELSE GenFrom(k + 1, str_len, char_set, picks, Append(rand_string, c))

\* variants of gen_rand_string: a failed choice is skipped instead of
\* returned; the loop starts one too late
RECURSIVE GenSkipping(_, _, _, _, _)
GenSkipping(k, str_len, char_set, picks, rand_string) ==
    IF k > str_len THEN Ok(rand_string)
    ELSE LET c == Choose(char_set, picks[k])
         IN  GenSkipping(k + 1, str_len, char_set, picks,
                         IF c = 0 THEN rand_string ELSE Append(rand_string, c))

gen_rand_string_Skip(str_len, char_set, picks) ==
    GenSkipping(1, str_len, char_set, picks, <<>>)

gen_rand_string_Short(str_len, char_set, picks) ==
    GenFrom(2, str_len, char_set, picks, <<>>)

gen_rand_string(str_len, char_set, picks) == GenFrom(1, str_len, char_set, picks, <<>>)

\* variant of MustMutate: the roll equal to the rate does not mutate
MustMutate_Strict(mut_roll, mutation_rate) == mut_roll < mutation_rate

\* the test `mut_roll <= mutation_rate`
MustMutate(mut_roll, mutation_rate) == mut_roll <= mutation_rate

\* get_mutated_string: char by char, the roll decides between a chosen char
\* of char_set and the char of base_str; a failed choice ends the call.
RECURSIVE MutateFrom(_, _, _, _, _, _, _)
MutateFrom(k, mutation_rate, base_str, char_set, rolls, picks, mutated_str) ==
    IF k > Len(base_str) THEN Ok(mutated_str)
    ELSE IF MustMutate(rolls[k], mutation_rate)
         THEN LET c == Choose(char_set, picks[k])
              IN  IF c = 0 THEN Failed
                  ELSE MutateFrom(k + 1, mutation_rate, base_str, char_set, rolls, picks,
                                  Append(mutated_str, c))
         ELSE MutateFrom(k + 1, mutation_rate, base_str, char_set, rolls, picks,
                         Append(mutated_str, base_str[k]))

\* variant of get_mutated_string: the `continue` after a mutation is
\* missing, so the original char is pushed as well
RECURSIVE MutateNoContinue(_, _, _, _, _, _, _)
MutateNoContinue(k, mutation_rate, base_str, char_set, rolls, picks, mutated_str) ==
    IF k > Len(base_str) THEN Ok(mutated_str)
    ELSE IF MustMutate(rolls[k], mutation_rate)
         THEN LET c == Choose(char_set, picks[k])
              IN  IF c = 0 THEN Failed
                  ELSE MutateNoContinue(k + 1, mutation_rate, base_str, char_set, rolls,
                                        picks, Append(Append(mutated_str, c), base_str[k]))
         ELSE MutateNoContinue(k + 1, mutation_rate, base_str, char_set, rolls, picks,
                               Append(mutated_str, base_str[k]))

get_mutated_string_NoContinue(mutation_rate, base_str, char_set, rolls, picks) ==
    MutateNoContinue(1, mutation_rate, base_str, char_set, rolls, picks, <<>>)

get_mutated_string(mutation_rate, base_str, char_set, rolls, picks) ==
    MutateFrom(1, mutation_rate, base_str, char_set, rolls, picks, <<>>)

\* variant of check_equal_chars: the chars of string_a that occur anywhere
\* in string_b are counted
check_equal_chars_Shared(string_a, string_b) ==
    Cardinality({k \in 1..Len(string_a) : string_a[k] \in Chars(string_b)})

\* check_equal_chars: zip, filter equal pairs, count
check_equal_chars(string_a, string_b) ==
    Cardinality({k \in 1..Min(Len(string_a), Len(string_b)) : string_a[k] = string_b[k]})

\* struct Mutation(String, usize)
Mutation(s, n) == [str |-> s, score |-> n]

----------------------------------------------------------------------------
(* Configurations *)

\* the phrases of the enumerated runs: "", "G", "GO", "X", "é"
Phrases == {<<>>, <<71>>, <<71, 79>>, <<88>>, <<233>>}

\* the character sets of the enumerated runs: "", "GO", "é"
CharSets == {<<>>, <<71, 79>>, <<233>>}

\* the mutation rates (a u8) of the enumerated runs
Rates == {0, MinRate, MaxRate, MaxRate + 1}

WeaselArgs(p, c, n, m) ==
    [phrase |-> p, char_set |-> c, iterations |-> n, mutation_rate |-> m]

\* the end-to-end run: -p GO -c GO -i 50 -m 100
EndToEnd == WeaselArgs(<<71, 79>>, <<71, 79>>, 50, MaxRate)

Configs ==
    {WeaselArgs(p, c, n, m) : p \in Phrases, c \in CharSets, n \in 0..MaxIter, m \in Rates}
    \cup {EndToEnd}

----------------------------------------------------------------------------
(* main and run_weasel *)

\* the messages written to standard error
\* (a line is the sequence of its format string's text and of the values
\* formatted into it)
RateMessage(mutation_rate) ==
    <<"Mutation value should be within [1-100], not ", mutation_rate>>
IterationsMessage(iterations) == <<"Iterations value should be >= 1, not ", iterations>>
GenMessage == <<"Couldn't pick character from char set when generating random string">>
MutateMessage == <<"Couldn't get random character to mutate string">>

\* the lines written to standard output
StartLine(s) == [tag |-> "Start", n |-> 0, str |-> s]

\* variant of GenLine: the generations are numbered from 1
GenLine_OneBased(n, s) == [tag |-> "Gen", n |-> n + 1, str |-> s]

GenLine(n, s) == [tag |-> "Gen", n |-> n, str |-> s]

\* variant of RateRejected: the lower end is not tested
RateRejected_UpperOnly(mutation_rate) == mutation_rate > MaxRate

\* main: the first test fails on `mutation_rate > 100 || mutation_rate < 1`
RateRejected(mutation_rate) == mutation_rate > MaxRate \/ mutation_rate < MinRate

\* main: the second test fails on `iterations < 1`
IterationsRejected(iterations) == iterations < MinIterations

\* variants of LoopContinues: the score is compared to the phrase's char
\* count instead of the strings; the loop body runs at least once
LoopContinues_Score(best, phrase) == best.score /= Len(phrase)
LoopContinues_DoWhile(best, phrase) == best.str /= phrase \/ gen_num = 0

\* run_weasel: the guard of the while loop
LoopContinues(best, phrase) == best.str /= phrase

\* variants of IsNewBest: any other score is adopted; the latest trial is
\* always adopted
IsNewBest_NotEqual(cur_score, best_score) == cur_score /= best_score
IsNewBest_Latest(cur_score, best_score) == TRUE

\* variant of IsNewBest: an equal score is adopted too
IsNewBest_GreaterEqual(cur_score, best_score) == cur_score >= best_score

\* run_weasel: `cur_score > cur_best.1`
IsNewBest(cur_score, best_score) == cur_score > best_score

\* variant of TrialBase: a trial mutates the working-best of its batch
TrialBase_CurBest == cur_best.str

\* run_weasel: the base of every trial of a generation
TrialBase == prev_best.str

\* the history `batch` is kept for the generations of at most MaxIter trials
Tracked == args.iterations <= MaxIter

\* run_weasel: the length asked of gen_rand_string
StartLen(phrase) == ByteLen(phrase)

Init ==
    /\ args \in Configs
    /\ pc = "main"
    /\ prev_best = Mutation(<<>>, 0)
    /\ cur_best = Mutation(<<>>, 0)
    /\ cur_str = <<>>
    /\ iter = 0
    /\ gen_num = 0
    /\ out = <<>>
    /\ err = <<>>
    /\ exit_code = 0
    /\ gen_calls = 0
    /\ hit = FALSE
    /\ batch = <<>>

\* main, up to the call of run_weasel: the two tests on the arguments
Main ==
    /\ pc = "main"
    /\ IF RateRejected(args.mutation_rate)
       THEN /\ err' = Append(err, RateMessage(args.mutation_rate))
            /\ exit_code' = 1
            /\ pc' = "exit"
       ELSE IF IterationsRejected(args.iterations)
       THEN /\ err' = Append(err, IterationsMessage(args.iterations))
            /\ exit_code' = 1
            /\ pc' = "exit"
       ELSE /\ pc' = "run"
            /\ UNCHANGED <<err, exit_code>>
    /\ UNCHANGED <<args, prev_best, cur_best, cur_str, iter, gen_num, out, gen_calls, hit,
                   batch>>

\* run_weasel, up to the while loop: the random candidate, its score and
\* the Start line; an error of gen_rand_string returns to main, which
\* prints it and leaves with exit code 1
Initialize ==
    /\ pc = "run"
    /\ \E picks \in [1..StartLen(args.phrase) -> PickRange(args.char_set)] :
         LET r == gen_rand_string(StartLen(args.phrase), args.char_set, picks)
         IN  IF r.ok
             THEN /\ prev_best' = Mutation(r.val, check_equal_chars(args.phrase, r.val))
                  /\ out' = Append(out, StartLine(r.val))
                  /\ pc' = "while"
                  /\ UNCHANGED <<err, exit_code>>
             ELSE /\ err' = Append(err, GenMessage)
                  /\ exit_code' = 1
                  /\ pc' = "exit"
                  /\ UNCHANGED <<prev_best, out>>
    /\ gen_calls' = gen_calls + 1
    /\ UNCHANGED <<args, cur_best, cur_str, iter, gen_num, hit, batch>>

\* the test of the while loop: enter a generation with cur_best a clone of
\* prev_best, or return Ok(()) to main, which leaves with exit code 0.
\* The model follows a run for MaxGen generations when `capped`.
EnterWhen(capped) ==
    /\ pc = "while"
    /\ LoopContinues(prev_best, args.phrase)
    /\ capped => gen_num < MaxGen
    /\ cur_best' = prev_best
    /\ iter' = 0
    /\ hit' = FALSE
    /\ batch' = <<>>
    /\ pc' = "for"
    /\ UNCHANGED <<args, prev_best, cur_str, gen_num, out, err, exit_code, gen_calls>>

EnterGeneration == EnterWhen(TRUE)

Converge ==
    /\ pc = "while"
    /\ ~LoopContinues(prev_best, args.phrase)
    /\ pc' = "exit"
    /\ UNCHANGED <<args, prev_best, cur_best, cur_str, iter, gen_num, out, err,
                   exit_code, gen_calls, hit, batch>>

\* one trial of the for loop with the given result of get_mutated_string
TrialWith(r) ==
    /\ pc = "for"
    /\ iter < args.iterations
    /\ IF r.ok
       THEN LET cur_score == check_equal_chars(r.val, args.phrase)
            IN  /\ cur_str' = r.val
                /\ cur_best' = IF IsNewBest(cur_score, cur_best.score)
                               THEN Mutation(r.val, cur_score)
                               ELSE cur_best
                /\ hit' = (hit \/ r.val = args.phrase)
                /\ batch' = IF Tracked
                            THEN Append(batch, [base |-> TrialBase, str |-> r.val])
                            ELSE batch
                /\ iter' = iter + 1
                /\ UNCHANGED <<pc, err, exit_code>>
       ELSE /\ err' = Append(err, MutateMessage)
            /\ exit_code' = 1
            /\ pc' = "exit"
            /\ UNCHANGED <<cur_str, cur_best, hit, batch, iter>>
    /\ UNCHANGED <<args, prev_best, gen_num, out, gen_calls>>

\* variant of TrialResults: the phrase is handed to get_mutated_string in
\* the place of the character set
TrialResults_FromPhrase ==
    {get_mutated_string(args.mutation_rate, TrialBase, args.phrase, rolls, picks) :
        rolls \in [1..Len(TrialBase) -> RollSamples],
        picks \in [1..Len(TrialBase) -> PickRange(args.phrase)]}

\* the results get_mutated_string can give in the current state
TrialResults ==
    {get_mutated_string(args.mutation_rate, TrialBase, args.char_set, rolls, picks) :
        rolls \in [1..Len(TrialBase) -> RollSamples],
        picks \in [1..Len(TrialBase) -> PickRange(args.char_set)]}

Trial == \E r \in TrialResults : TrialWith(r)

\* the end of the for loop: the best of the batch becomes prev_best and is
\* printed, and the generation counter moves on
EndGeneration ==
    /\ pc = "for"
    /\ iter = args.iterations
    /\ prev_best' = cur_best
    /\ out' = Append(out, GenLine(gen_num, cur_best.str))
    /\ gen_num' = gen_num + 1
    /\ pc' = "while"
    /\ UNCHANGED <<args, cur_best, cur_str, iter, err, exit_code, gen_calls, hit, batch>>

Next ==
    \/ Main
    \/ Initialize
    \/ EnterGeneration
    \/ Converge
    \/ Trial
    \/ EndGeneration

Spec == Init /\ [][Next]_vars

Converged == pc = "exit" /\ exit_code = 0

----------------------------------------------------------------------------
(* The steps of the program itself, without the cap of the model *)

\* the while loop is entered whatever the number of generations so far
EnterLoop == EnterWhen(FALSE)

\* the trial whose mutated string is s
TrialYields(s) == Ok(s) \in TrialResults /\ TrialWith(Ok(s))

ProgramNext ==
    \/ Main
    \/ Initialize
    \/ EnterLoop
    \/ Converge
    \/ Trial
    \/ EndGeneration

----------------------------------------------------------------------------
(* Inputs on which the helpers are checked on their own *)

\* all strings of at most MaxLen chars over 'G', 'O', 'X', 'é'
FnStrings == UNION {[1..n -> {71, 79, 88, 233}] : n \in 0..MaxLen}

\* the non-empty character sets: "GO", "é", "G", "GG"
FnCharSets == {<<71, 79>>, <<233>>, <<71>>, <<71, 71>>}

\* the rates: both ends of [1,100] and one rate in between
FnRates == {MinRate, 50, MaxRate}

LastLine == out[Len(out)]

\* the run was handed to run_weasel's loop: the Start line is out
Started == out /= <<>>

----------------------------------------------------------------------------
(* Claims *)

\* C1: the score of the current best candidate never decreases: every step
\* of a started run leaves prev_best's score equal or greater, so the score
\* after generation N+1 is >= the score after generation N, and the score
\* after generation 0 is >= the score of the Start candidate.
C1_ScoreNeverDecreases ==
    [][Started => prev_best'.score >= prev_best.score]_vars

\* C1 witness: a generation has ended with a score above the Start score.
C1_Witness ==
    /\ pc = "while"
    /\ Len(out) >= 2
    /\ prev_best.score > check_equal_chars(args.phrase, out[1].str)

\* C2: a successful run stops exactly at the first emitted line whose
\* string equals the phrase: no line before the last one carries the
\* phrase; once the last line carries it no generation is running and none
\* can start; the run that ended with exit code 0 has the phrase on its last
\* line, and a run that ended with the phrase on its last line ended with
\* exit code 0; a run that has ended takes no further step.
C2_StopsAtFirstTargetLine ==
    /\ \A k \in 1..(Len(out) - 1) : out[k].str /= args.phrase
    /\ (Started /\ LastLine.str = args.phrase) =>
           /\ pc \in {"while", "exit"}
           /\ ~ENABLED EnterGeneration
           /\ ~ENABLED Trial
           /\ ~ENABLED EndGeneration
    /\ Converged => (Started /\ LastLine.str = args.phrase)
    /\ (pc = "exit" /\ Started /\ LastLine.str = args.phrase) => exit_code = 0
    /\ pc = "exit" => ~ENABLED Next

\* C2 witness: a run has converged after at least two generations.
C2_Witness == Converged /\ Len(out) >= 3

\* C3: when a trial of the running batch has produced the phrase, the best
\* of the batch is the phrase whatever the other trials gave, the line
\* emitted at the end of the generation carries the phrase, and the loop
\* then converges: it cannot enter another generation nor fail.
C3_TargetInBatchIsSelected ==
    hit =>
        /\ pc \in {"for", "while", "exit"}
        /\ pc = "for" => cur_best.str = args.phrase
        /\ pc = "while" =>
               /\ LastLine = GenLine(gen_num - 1, args.phrase)
               /\ prev_best.str = args.phrase
               /\ ENABLED Converge
               /\ ~ENABLED EnterGeneration
        /\ pc = "exit" => (Converged /\ LastLine.str = args.phrase)

\* C3 witness: a run converged through a batch in which a trial produced
\* the phrase and the last trial produced something else.
C3_Witness == hit /\ Converged /\ cur_str /= args.phrase

\* a run that is in its loop is neither stopped by an error nor past the
\* point where it can converge: whenever a trial is due, the draws that
\* give the phrase are possible, so that fair draws end up taking them
ConvergenceStaysPossible ==
    /\ gen_calls >= 1 => (err = <<>> /\ exit_code = 0)
    /\ (pc = "for" /\ iter < args.iterations) => ENABLED TrialYields(args.phrase)

\* C4 as stated: a run with a valid configuration whose character set holds
\* every char of the phrase eventually converges when the random draws are
\* fair, every mutation that stays possible being eventually drawn: the run
\* never fails, and at every trial the mutation that gives the phrase is
\* possible.
C4_EventuallyConverges ==
    (/\ args.iterations >= 1
     /\ args.mutation_rate \in 1..100
     /\ Chars(args.phrase) \subseteq Chars(args.char_set)) => ConvergenceStaysPossible

\* the same for the phrases whose chars are all encoded in one byte
C4_OneByteConverges ==
    (/\ args.iterations >= 1
     /\ args.mutation_rate \in 1..100
     /\ Chars(args.phrase) \subseteq Chars(args.char_set)
     /\ ByteLen(args.phrase) = Len(args.phrase)) => ConvergenceStaysPossible

\* C5 as stated: in the end-to-end run every converging run ends with a
\* final line "Gen <n>: GO".
C5_FinalLineIsGen ==
    (args = EndToEnd /\ Converged) => (LastLine.tag = "Gen" /\ LastLine.str = <<71, 79>>)

\* C5 amended: in the end-to-end run every converging run ends with a final
\* line carrying GO; it is the line "Gen <n>: GO" of the last generation
\* unless the Start candidate is already GO, and then the Start line is the
\* only line.
C5_FinalLine ==
    (args = EndToEnd /\ Converged) =>
        /\ Started
        /\ LastLine.str = <<71, 79>>
        /\ IF out[1].str = <<71, 79>>
           THEN out = <<StartLine(<<71, 79>>)>>
           ELSE LastLine = GenLine(Len(out) - 2, <<71, 79>>)

\* C5 witness: the end-to-end run has converged on a generation line.
C5_Witness == args = EndToEnd /\ Converged /\ LastLine.tag = "Gen"

\* C6 as stated: the current best candidate, the Start candidate included,
\* has as many chars as the phrase.
C6_CandidateLength ==
    Started =>
        /\ Len(prev_best.str) = Len(args.phrase)
        /\ Len(out[1].str) = Len(args.phrase)

\* C7: with a mutation rate outside [1,100] or iterations < 1 the core
\* never runs: no line is emitted, no random candidate is generated, and
\* main ends with exit code 1 after one message on standard error.
C7_InvalidConfigNeverRuns ==
    (args.mutation_rate < 1 \/ args.mutation_rate > 100 \/ args.iterations < 1) =>
        /\ pc \in {"main", "exit"}
        /\ out = <<>>
        /\ gen_calls = 0
        /\ pc = "main" => (err = <<>> /\ ~ENABLED Initialize)
        /\ pc = "exit" =>
               /\ exit_code = 1
               /\ Len(err) = 1
               /\ err[1] = IF args.mutation_rate < 1 \/ args.mutation_rate > 100
                           THEN <<"Mutation value should be within [1-100], not ",
                                  args.mutation_rate>>
                           ELSE <<"Iterations value should be >= 1, not ", args.iterations>>

\* C7 witness: a run with an invalid configuration has ended.
C7_Witness ==
    /\ (args.mutation_rate < 1 \/ args.mutation_rate > 100 \/ args.iterations < 1)
    /\ pc = "exit"

\* gen_rand_string fails for every length L > 0 on the empty character set
GenFailsOnEmpty ==
    \A L \in 1..MaxLen : \A picks \in [1..L -> {0}] :
        ~gen_rand_string(L, <<>>, picks).ok

\* C8: with an empty character set and a length L > 0 gen_rand_string
\* fails, and run_weasel propagates the failure: the run emits nothing, ends
\* with exit code 1 and the sampling message, never converges and calls the
\* generator once only.
C8_EmptyCharSetFails ==
    /\ GenFailsOnEmpty
    /\ (/\ args.char_set = <<>>
        /\ args.phrase /= <<>>
        /\ args.mutation_rate \in 1..100
        /\ args.iterations >= 1) =>
           /\ pc \in {"main", "run", "exit"}
           /\ out = <<>>
           /\ ~Converged
           /\ gen_calls <= 1
           /\ pc = "exit" => (exit_code = 1 /\ err = <<GenMessage>> /\ gen_calls = 1)

\* C8 witness: a valid run with an empty character set and a non-empty
\* phrase has ended.
C8_Witness ==
    /\ args.char_set = <<>>
    /\ args.phrase /= <<>>
    /\ gen_calls = 1
    /\ pc = "exit"

\* gen_rand_string(L, C) on non-empty C: L chars, all of C
GenGivesLCharsOfC ==
    \A L \in 0..MaxLen : \A C \in FnCharSets : \A picks \in [1..L -> PickRange(C)] :
        LET r == gen_rand_string(L, C, picks)
        IN  /\ r.ok
            /\ Len(r.val) = L
            /\ Chars(r.val) \subseteq Chars(C)

\* C9: for every non-empty character set C and every length L >= 0,
\* gen_rand_string(L, C) succeeds with a string of exactly L chars, each a
\* member of C; in a run, where L is phrase.len(), the call succeeds and the
\* Start candidate is such a string.
C9_GeneratorLengthAndMembers ==
    /\ GenGivesLCharsOfC
    /\ (args.char_set /= <<>> /\ gen_calls = 1) =>
           /\ Started
           /\ err = <<>>
           /\ Len(out[1].str) = ByteLen(args.phrase)
           /\ Chars(out[1].str) \subseteq Chars(args.char_set)

\* C9 witness: the generator has given a Start candidate of two chars.
C9_Witness == args.char_set /= <<>> /\ gen_calls = 1 /\ Len(out[1].str) = 2

\* get_mutated_string(rate, S, C) on non-empty C: as long as S, every
\* position holding the char of S or a char of C
MutateKeepsLength ==
    \A S \in FnStrings : \A C \in FnCharSets : \A rate \in FnRates :
        \A rolls \in [1..Len(S) -> RollSamples] : \A picks \in [1..Len(S) -> PickRange(C)] :
            LET r == get_mutated_string(rate, S, C, rolls, picks)
            IN  /\ r.ok
                /\ Len(r.val) = Len(S)
                /\ \A k \in 1..Len(S) : r.val[k] = S[k] \/ r.val[k] \in Chars(C)

\* the decision is taken per position: below rate 100 every set M of
\* positions is the set of replaced positions for some draws (S and C
\* sharing no char, a replaced position shows)
MutateDecidesPerPosition ==
    \A S \in FnStrings : \A C \in FnCharSets : \A rate \in FnRates :
        (Chars(S) \cap Chars(C) = {} /\ rate < MaxRoll) =>
            \A M \in SUBSET (1..Len(S)) :
                \E rolls \in [1..Len(S) -> RollSamples] :
                    \E picks \in [1..Len(S) -> PickRange(C)] :
                        LET r == get_mutated_string(rate, S, C, rolls, picks)
                        IN  /\ r.ok
                            /\ Len(r.val) = Len(S)
                            /\ \A k \in 1..Len(S) : (r.val[k] /= S[k]) <=> (k \in M)

\* C10: for every base string S, every non-empty character set C and every
\* rate in [1,100], get_mutated_string(rate, S, C) returns a string as long
\* as S in which every position holds S[i] or a char of C, the decision
\* being taken position by position; so does every trial of a run.
C10_MutatorLengthAndMembers ==
    /\ MutateKeepsLength
    /\ MutateDecidesPerPosition
    /\ (pc = "for" /\ iter > 0 /\ args.char_set /= <<>>) =>
           /\ Len(cur_str) = Len(prev_best.str)
           /\ \A k \in 1..Len(cur_str) :
                  cur_str[k] = prev_best.str[k] \/ cur_str[k] \in Chars(args.char_set)

\* C10 witness: a trial has kept one char of its base and replaced the
\* other.
C10_Witness ==
    /\ pc = "for"
    /\ iter > 0
    /\ Len(cur_str) = 2
    /\ cur_str[1] = prev_best.str[1]
    /\ cur_str[2] /= prev_best.str[2]

\* the string of n repetitions of x
Repeat(x, n) == [k \in 1..n |-> x]

\* at rate 100 every value of gen_range(0..=100) triggers a mutation
EveryRollMutatesAtFullRate ==
    \A mut_roll \in 0..MaxRoll : MustMutate(mut_roll, MaxRate)

\* get_mutated_string(100, S, {x}) is length(S) repetitions of x
FullRateReplacesAll ==
    \A S \in FnStrings : \A x \in {71, 233} :
        \A rolls \in [1..Len(S) -> RollSamples \cup {MaxRoll - 1}] :
            get_mutated_string(MaxRate, S, <<x>>, rolls, [k \in 1..Len(S) |-> 0])
                = Ok(Repeat(x, Len(S)))

\* C11: with mutation rate 100 every draw from [0,100] triggers a
\* mutation, so get_mutated_string(100, S, {x}) returns length(S)
\* repetitions of x for every base string S: no position keeps a char other
\* than x; so does every trial of a run with rate 100 and a character set
\* of one char.
C11_FullRateSingleChar ==
    /\ EveryRollMutatesAtFullRate
    /\ FullRateReplacesAll
    /\ (args.mutation_rate = 100 /\ Len(args.char_set) = 1) =>
           \A k \in 1..Len(batch) :
               batch[k].str = Repeat(args.char_set[1], Len(batch[k].base))

\* C11 witness: a trial of a run with rate 100 and the character set "é"
\* has given a string of two chars.
C11_Witness ==
    /\ args.mutation_rate = 100
    /\ Len(args.char_set) = 1
    /\ batch /= <<>>
    /\ Len(batch[1].str) = 2

\* the matches of two strings, pair by pair from the front, up to the end
\* of the shorter
RECURSIVE CountMatches(_, _)
CountMatches(A, B) ==
    IF A = <<>> \/ B = <<>> THEN 0
    ELSE (IF Head(A) = Head(B) THEN 1 ELSE 0) + CountMatches(Tail(A), Tail(B))

\* check_equal_chars on all pairs of strings, of equal and of different
\* lengths: the count of matching positions below the shorter length,
\* unchanged by the trailing chars of the longer string and by the order of
\* the arguments
ScorerCountsMatches ==
    \A A \in FnStrings : \A B \in FnStrings :
        LET m == Min(Len(A), Len(B))
        IN  /\ check_equal_chars(A, B) = CountMatches(A, B)
            /\ check_equal_chars(A, B) \in 0..m
            /\ check_equal_chars(A, B) = check_equal_chars(SubSeq(A, 1, m), SubSeq(B, 1, m))
            /\ check_equal_chars(A, B) = check_equal_chars(B, A)

\* the documented values: FOO/OOF, FOOBAR/FOO, FOO/FOOBAR, ABC/ABC, ""/ABC
ScorerExamples ==
    /\ check_equal_chars(<<70, 79, 79>>, <<79, 79, 70>>) = 1
    /\ check_equal_chars(<<70, 79, 79, 66, 65, 82>>, <<70, 79, 79>>) = 3
    /\ check_equal_chars(<<70, 79, 79>>, <<70, 79, 79, 66, 65, 82>>) = 3
    /\ check_equal_chars(<<65, 66, 67>>, <<65, 66, 67>>) = 3
    /\ check_equal_chars(<<>>, <<65, 66, 67>>) = 0

\* C12: check_equal_chars(A, B) is, for all A and B, the number of
\* positions below min(length(A), length(B)) at which A and B hold the same
\* char; a length mismatch is no failure, the trailing chars of the longer
\* string are ignored, and check_equal_chars(A, B) = check_equal_chars(B, A);
\* in a run the score of the best candidate is this number, whichever the
\* order of the arguments of the call that gave it.
C12_ScorerCountsMatches ==
    /\ ScorerCountsMatches
    /\ ScorerExamples
    /\ Started =>
           /\ prev_best.score = CountMatches(prev_best.str, args.phrase)
           /\ prev_best.score = CountMatches(args.phrase, prev_best.str)

\* C12 witness: a candidate longer than the phrase has been scored after a
\* generation, its trailing char ignored.
C12_Witness ==
    /\ Started
    /\ gen_num >= 1
    /\ Len(prev_best.str) > Len(args.phrase)
    /\ prev_best.score = 1

\* the number of matches of a candidate with the phrase
Matches(s) == CountMatches(s, args.phrase)

\* `batch` holds the trials of a generation: the running one, or the last
\* one once its line is out
InBatch == pc = "for"
AfterBatch == pc \in {"while", "exit"} /\ gen_num >= 1

\* the best candidate carried over from the previous generation
CarriedOver == IF pc = "for" THEN prev_best.str ELSE out[Len(out) - 1].str

\* the greatest number of matches among the trials so far
BatchMax ==
    CHOOSE n \in {Matches(batch[k].str) : k \in 1..Len(batch)} :
        \A k \in 1..Len(batch) : Matches(batch[k].str) <= n

\* the first trial, in trial order, that reaches BatchMax
FirstOfMax ==
    CHOOSE k \in 1..Len(batch) :
        /\ Matches(batch[k].str) = BatchMax
        /\ \A j \in 1..(k - 1) : Matches(batch[j].str) < BatchMax

\* the candidate the tie policy selects among CarriedOver and the trials
Selected ==
    IF \E k \in 1..Len(batch) : Matches(batch[k].str) > Matches(CarriedOver)
    THEN batch[FirstOfMax].str
    ELSE CarriedOver

\* the working-best is the selected candidate all along the batch, and the
\* candidate adopted at the end of the generation is the one selected among
\* all its trials
SelectionHolds ==
    Tracked =>
        /\ InBatch => cur_best.str = Selected
        /\ AfterBatch => (Len(batch) = args.iterations /\ prev_best.str = Selected)

\* a trial replaces the working-best only by its own string and only with
\* a strictly greater score
ReplacedOnlyByBetter ==
    (pc = "for" /\ pc' = "for" /\ cur_best' /= cur_best) =>
        /\ cur_best'.score > cur_best.score
        /\ Matches(cur_best'.str) > Matches(cur_best.str)
        /\ cur_best'.str = cur_str'

\* C13: within a generation the working-best is replaced only by a trial
\* whose score is strictly greater, never by one of equal score, so the
\* candidate adopted at the end of the generation is the first trial, in
\* trial order, that reaches the maximal score of the batch, or the previous
\* best unchanged when no trial strictly exceeds its score.
C13_FirstBestWins == []SelectionHolds /\ [][ReplacedOnlyByBetter]_vars

\* C13 witness: a generation has ended in which two different trials
\* reached the same score, above the previous best's, and the first one
\* was adopted.
C13_Witness ==
    /\ pc = "while"
    /\ gen_num >= 1
    /\ Len(batch) = 2
    /\ batch[1].str /= batch[2].str
    /\ Matches(batch[1].str) = Matches(batch[2].str)
    /\ Matches(batch[1].str) > Matches(out[Len(out) - 1].str)
    /\ prev_best.str = batch[1].str

\* every trial of the batch had the carried-over best as its base, and the
\* batch has one trial per iteration done
BasesAreCarriedOver ==
    /\ (Tracked /\ (InBatch \/ AfterBatch)) =>
           \A k \in 1..Len(batch) : batch[k].base = CarriedOver
    /\ (Tracked /\ InBatch) => (Len(batch) = iter /\ iter <= args.iterations)
    /\ (Tracked /\ AfterBatch) => Len(batch) = args.iterations
    /\ InBatch => iter \in 0..args.iterations

\* a step inside the batch is one trial and leaves prev_best alone; the
\* generation ends, and only then changes prev_best, after `iterations`
\* trials
BatchSteps ==
    /\ (pc = "for" /\ pc' = "for") => (prev_best' = prev_best /\ iter' = iter + 1)
    /\ (pc = "while" /\ pc' = "for") => (prev_best' = prev_best /\ iter' = 0)
    /\ (pc = "for" /\ pc' = "while") => iter = args.iterations

\* C14: every one of the `iterations` trials of a generation mutates the
\* string of the best candidate carried over from the previous generation,
\* which stays unchanged during the whole batch; no trial mutates the
\* working-best found earlier in the batch, and a generation makes exactly
\* `iterations` trials.
C14_TrialsMutateCarriedOver == []BasesAreCarriedOver /\ [][BatchSteps]_vars

\* C14 witness: the first trial of a batch has become the working-best and
\* the second trial has still mutated the carried-over best.
C14_Witness ==
    /\ pc = "for"
    /\ Len(batch) = 2
    /\ cur_best.str = batch[1].str
    /\ cur_best.str /= prev_best.str
    /\ batch[2].base = prev_best.str

\* the lines so far: the Start line first, then the generation lines
\* numbered from 0 without gap or repeat, one per completed generation
LinesOrdered ==
    /\ ~Started => gen_num = 0
    /\ Started =>
           /\ out[1].tag = "Start"
           /\ Len(out) = gen_num + 1
           /\ \A k \in 2..Len(out) : (out[k].tag = "Gen" /\ out[k].n = k - 2)

\* a step emits at most one line, never changes an emitted line, emits the
\* Start line from run_weasel's start only and a generation line only when
\* all trials of its generation are done, and every generation that ends
\* emits its line
LineSteps ==
    /\ out' /= out =>
           /\ Len(out') = Len(out) + 1
           /\ SubSeq(out', 1, Len(out)) = out
           /\ IF out = <<>>
              THEN pc = "run" /\ out'[1].tag = "Start"
              ELSE /\ pc = "for"
                   /\ iter = args.iterations
                   /\ Tracked => Len(batch) = args.iterations
                   /\ out'[Len(out')] = [tag |-> "Gen", n |-> gen_num, str |-> cur_best.str]
    /\ (pc = "for" /\ pc' = "while") => (out' /= out /\ gen_num' = gen_num + 1)
    /\ gen_num' /= gen_num => out' /= out

\* C15: the lines of a run are ordered: exactly one Start line, the first
\* line, followed by the generation lines numbered 0, 1, 2, ... with no gap
\* and no repeat, exactly one per completed generation, the line of
\* generation N being emitted only after all trials of generation N.
C15_LinesOrdered == []LinesOrdered /\ [][LineSteps]_vars

\* C15 witness: the Start line and the lines of generations 0, 1 and 2 are
\* out.
C15_Witness == pc = "while" /\ Len(out) = 4 /\ out[4].n = 2

\* the score stored in a Mutation is the number of matches of its string
\* with the phrase, at most the phrase's char count
ScoreIsMatches(m) == m.score = Matches(m.str) /\ m.score \in 0..Len(args.phrase)

\* C16: in every reachable state of run_weasel the score stored with the
\* current best candidate, and with the working-best of a running batch,
\* is the number of position-wise matches of its string with the phrase and
\* lies in [0, length of the phrase].
C16_StoredScoreIsMatchCount ==
    /\ Started => ScoreIsMatches(prev_best)
    /\ pc = "for" => ScoreIsMatches(cur_best)

\* C16 witness: the working-best of a running batch has a score above the
\* current best's and below the phrase's length.
C16_Witness ==
    /\ pc = "for"
    /\ cur_best.score > prev_best.score
    /\ cur_best.score < Len(args.phrase)

\* the phrase holds a char that the non-empty character set lacks
PhraseOutsideCharSet ==
    /\ args.char_set /= <<>>
    /\ ~(Chars(args.phrase) \subseteq Chars(args.char_set))

\* C17: every char of every emitted candidate is a member of the character
\* set; so with a non-empty character set and a phrase holding a char that
\* is not in it, no emitted line carries the phrase, the run never
\* converges, and once run_weasel is called it never ends: whatever the
\* draws, it has a next step.
C17_OutsideCharSetNeverConverges ==
    /\ \A k \in 1..Len(out) : Chars(out[k].str) \subseteq Chars(args.char_set)
    /\ PhraseOutsideCharSet =>
           /\ \A k \in 1..Len(out) : out[k].str /= args.phrase
           /\ ~Converged
           /\ gen_calls >= 1 => (pc /= "exit" /\ err = <<>> /\ ENABLED ProgramNext)

\* C17 witness: a run whose phrase "X" is outside its character set "GO"
\* has emitted two generations of candidates as long as the phrase.
C17_Witness ==
    /\ PhraseOutsideCharSet
    /\ Len(out) >= 3
    /\ Len(prev_best.str) = Len(args.phrase)

\* C18: within a run a sampling error occurs in the initialisation only,
\* before any line: once the Start line is out no error is reported and no
\* trial can fail, whatever its draws; with an empty character set and an
\* empty phrase the run emits the Start line and converges at once, with an
\* empty character set and a non-empty phrase it fails before the Start
\* line; so no run emits lines and then fails.
C18_SamplingErrorOnlyAtStart ==
    /\ Started => (err = <<>> /\ exit_code = 0)
    /\ err /= <<>> => (out = <<>> /\ err[1] /= MutateMessage)
    /\ pc = "for" => \A r \in TrialResults : r.ok
    /\ (args.char_set = <<>> /\ args.phrase = <<>> /\ gen_calls >= 1) =>
           /\ out = <<[tag |-> "Start", n |-> 0, str |-> <<>>]>>
           /\ pc \in {"while", "exit"}
           /\ ~ENABLED EnterLoop
           /\ pc = "exit" => Converged
    /\ (args.char_set = <<>> /\ args.phrase /= <<>>) => (out = <<>> /\ ~Converged)

\* C18 witness: a run with an empty character set and an empty phrase has
\* converged on its Start line.
C18_Witness ==
    /\ args.char_set = <<>>
    /\ args.phrase = <<>>
    /\ Converged
    /\ Len(out) = 1

====
